---- MODULE Spec2Model ----
(***************************************************************************)
(* Model of project_starter.py: the transactions ledger kept in SQLite      *)
(* (create_transaction and the point-in-time queries over it), the         *)
(* SQLAlchemy connection pool the ledger functions share, and the          *)
(* MultiAgentWorkflow coordinator that sequences the agents.               *)
(*                                                                         *)
(* Money is counted in cents.  A stored date string is a pair              *)
(* <<day, tod>>: tod = 0 is the plain form "YYYY-MM-DD", tod = k + 1 is    *)
(* "YYYY-MM-DDThh:mm:ss" with the k-th time of day (k = 0 is 00:00:00).    *)
(* SQLite compares the strings byte by byte, so a plain date sorts before  *)
(* every string of the same day that carries a time.                       *)
(***************************************************************************)
EXTENDS Integers, Sequences, FiniteSets, TLC

VARIABLES ledger,            \* rows of table transactions; rowid = position
          idle,              \* QueuePool: idle connections, oldest first
          lastRowid,         \* last_insert_rowid() of each connection made
          calls,             \* the create_transaction calls, by call number
          res,               \* what the query that has just returned gave back
          wf,                \* MultiAgentWorkflow.run: position and locals
          agent_usage_count, \* MultiAgentWorkflow.agent_usage_count
          invoked,           \* agents invoked by the current request, in order
          nruns,             \* run calls started so far
          threads            \* run calls made from threads of their own

vars == <<ledger, idle, lastRowid, calls, res, wf, agent_usage_count, invoked, nruns, threads>>

-----------------------------------------------------------------------------
(* Bounds *)

MaxAppends == 2
MaxRuns == 2

CallIds == 1..MaxAppends

-----------------------------------------------------------------------------
(* Values *)

NULL == "NULL"

Items == {"A4 paper", "Cardstock"}

\* unit_price of paper_supplies, in cents
UnitPrice(item) == IF item = "A4 paper" THEN 5 ELSE 15

\* the rows of table inventory (the columns the report reads): the items
\* generate_sample_inventory selected
InventoryTable == <<[item_name |-> "A4 paper", unit_price |-> UnitPrice("A4 paper")]>>

InitialCash == 5000000

\* current_stock of the seeded item: a value of np.random.randint(200, 800)
SeedStocks == {500}

\* the validation left out
ValidTypeAny(t) == TRUE

ValidType(t) == t \in {"stock_orders", "sales"}

StrArg(d) == [kind |-> "str", day |-> d, time |-> 0]

DtArg(d, t) == [kind |-> "datetime", day |-> d, time |-> t]

\* datetime.isoformat(): "YYYY-MM-DDThh:mm:ss"
IsoFormat(dt) == <<dt.day, dt.time + 1>>

\* date.isoformat() if isinstance(date, datetime) else date
ToDateStr(a) == IF a.kind = "datetime" THEN IsoFormat(a) ELSE <<a.day, 0>>

\* transaction_date <= :as_of_date on the stored strings
StrLeq(a, b) == a[1] < b[1] \/ (a[1] = b[1] /\ a[2] <= b[2])

\* a nullable number: <<>> is NULL (None, NaN), <<n>> is the number n
NoValue == <<>>

Val(n) == <<n>>

\* SUM() skips NULL; over no non-NULL value it is NULL
RECURSIVE SumValues(_)
SumValues(s) ==
    IF s = <<>> THEN 0
    ELSE (IF Head(s) = NoValue THEN 0 ELSE Head(s)[1]) + SumValues(Tail(s))

SqlSum(s) ==
    IF \A i \in 1..Len(s) : s[i] = NoValue THEN NoValue ELSE Val(SumValues(s))

\* COALESCE(x, 0)
Coalesce0(x) == IF x = NoValue THEN 0 ELSE x[1]

Row(item, ttype, units, price, dateStr) ==
    [id |-> NoValue, item_name |-> item, transaction_type |-> ttype,
     units |-> units, price |-> price, transaction_date |-> dateStr]

-----------------------------------------------------------------------------
(* The connection pool *)

PoolConn(q, made) == IF q = <<>> THEN Len(made) + 1 ELSE Head(q)

PoolRest(q) == IF q = <<>> THEN <<>> ELSE Tail(q)

PoolMade(q, made) == IF q = <<>> THEN Append(made, 0) ELSE made

RECURSIVE Rotate(_, _)
Rotate(q, n) == IF n = 0 THEN q ELSE Rotate(Append(Tail(q), Head(q)), n - 1)

\* n statements one after the other, each on a connection checked out of the
\* pool, used and given back
PoolUseTimes(n) ==
    /\ idle' = Rotate(Append(PoolRest(idle), PoolConn(idle, lastRowid)), n - 1)
    /\ lastRowid' = PoolMade(idle, lastRowid)

PoolUse == PoolUseTimes(1)

-----------------------------------------------------------------------------
(* init_database *)

SeedRows(stock) ==
    <<Row(NULL, "sales", NoValue, InitialCash, IsoFormat(DtArg(1, 0))),
      Row("A4 paper", "stock_orders", Val(stock), stock * UnitPrice("A4 paper"),
          IsoFormat(DtArg(1, 0)))>>

NoCall == [pc |-> "new", ttype |-> NULL, own |-> 0, conn |-> 0, ret |-> 0,
           err |-> NULL, by |-> NULL, req |-> 0]

NoRes == [op |-> "none"]

Agents == {"inventory", "quoting", "sales", "invoice"}

ZeroUsage == [a \in Agents |-> 0]

NoResponse == [kind |-> "none"]

\* a thread that has not called run() yet; started is the clock reading at
\* its call, loaded the counter value its "+= 1" has read and not yet written
\* back, at the agent the counter belongs to
NoThread == [pc |-> "new", started |-> 0, request_id |-> 0, original_request |-> NULL,
             classification |-> NULL, proceed |-> FALSE, at |-> NULL, loaded |-> 0]

ThreadIds == 1..MaxRuns

WfIdle == [pc |-> "idle", classification |-> NULL, proceed |-> FALSE,
           answer |-> NULL, response |-> NoResponse, usage0 |-> ZeroUsage]

Init ==
    /\ \E stock \in SeedStocks : ledger = SeedRows(stock)
    /\ idle = <<1>>
    /\ lastRowid = <<Len(InventoryTable)>>
    /\ calls = [c \in CallIds |-> NoCall]
    /\ res = NoRes
    /\ wf = WfIdle
    /\ agent_usage_count = ZeroUsage
    /\ invoked = <<>>
    /\ nruns = 0
    /\ threads = [t \in ThreadIds |-> NoThread]

-----------------------------------------------------------------------------
(* create_transaction *)

\* if_exists="replace" in place of "append"
ToSqlReplace(l, row) == <<row>>

\* transaction.to_sql("transactions", db_engine, if_exists="append", index=False)
ToSqlAppend(l, row) == Append(l, row)

\* the calls that are inside create_transaction
InFlight(c) == calls[c].pc \in {"inserting", "inserted"}

Finished(c) == calls[c].pc \in {"returned", "raised"}

AllDone == \A c \in CallIds : ~InFlight(c)

\* call numbers only label the calls: they are handed out in order
NextCall(c) == calls[c].pc = "new" /\ \A b \in CallIds : b < c => calls[b].pc # "new"

\* Entry up to the INSERT: the date conversion, the validation of the type and
\* to_sql, which checks a connection out, inserts the row and commits.
\* dbOk = FALSE is the database refusing the INSERT (nothing is written).
CreateTransaction(c, by, item, ttype, units, price, date, dbOk) ==
    /\ NextCall(c)
    /\ LET date_str == ToDateStr(date)
           conn == PoolConn(idle, lastRowid)
           made == PoolMade(idle, lastRowid)
           rowid == Len(ledger) + 1
       IN  IF ~ValidType(ttype)
           THEN /\ calls' = [calls EXCEPT ![c] = [@ EXCEPT !.pc = "raised",
                                 !.ttype = ttype, !.err = "ValueError", !.by = by, !.req = nruns]]
                /\ UNCHANGED <<ledger, idle, lastRowid>>
           ELSE IF ~dbOk
           THEN /\ calls' = [calls EXCEPT ![c] = [@ EXCEPT !.pc = "raised",
                                 !.ttype = ttype, !.err = "DatabaseError", !.by = by, !.req = nruns]]
                /\ PoolUse
                /\ UNCHANGED ledger
           ELSE /\ ledger' = ToSqlAppend(ledger, Row(item, ttype, Val(units), price, date_str))
                /\ idle' = PoolRest(idle)
                /\ lastRowid' = [made EXCEPT ![conn] = rowid]
                /\ calls' = [calls EXCEPT ![c] = [@ EXCEPT !.pc = "inserting",
                                 !.ttype = ttype, !.own = rowid, !.conn = conn, !.by = by, !.req = nruns]]
    /\ res' = NoRes
    /\ UNCHANGED <<agent_usage_count, invoked, nruns, threads>>

\* to_sql returns: its connection goes back to the pool
ToSqlReturn(c) ==
    /\ calls[c].pc = "inserting"
    /\ idle' = Append(idle, calls[c].conn)
    /\ calls' = [calls EXCEPT ![c] = [@ EXCEPT !.pc = "inserted", !.conn = 0]]
    /\ res' = NoRes
    /\ UNCHANGED <<ledger, lastRowid, wf, agent_usage_count, invoked, nruns, threads>>

\* pd.read_sql("SELECT last_insert_rowid() as id", db_engine) on the connection
\* the pool hands out, then return int(result.iloc[0]["id"]).
\* dbOk = FALSE is the read failing: the except clause prints and re-raises.
FetchId(c, dbOk) ==
    /\ calls[c].pc = "inserted"
    /\ PoolUse
    /\ LET conn == PoolConn(idle, lastRowid)
           id == PoolMade(idle, lastRowid)[conn]
       IN  calls' = [calls EXCEPT ![c] =
                        IF dbOk THEN [@ EXCEPT !.pc = "returned", !.ret = id]
                        ELSE [@ EXCEPT !.pc = "raised", !.err = "DatabaseError"]]
    /\ res' = NoRes
    /\ UNCHANGED <<ledger, wf, agent_usage_count, invoked, nruns, threads>>

-----------------------------------------------------------------------------
(* The point-in-time queries *)

\* WHERE transaction_date <= :as_of_date
UpTo(l, as_of) == SelectSeq(l, LAMBDA r : StrLeq(r.transaction_date, as_of))

\* sales added instead of subtracted
StockTermUnsigned(r) ==
    IF r.transaction_type \in {"stock_orders", "sales"} THEN r.units ELSE Val(0)

\* CASE WHEN transaction_type = 'stock_orders' THEN units
\*      WHEN transaction_type = 'sales' THEN -units ELSE 0 END
StockTerm(r) ==
    IF r.transaction_type = "stock_orders" THEN r.units
    ELSE IF r.transaction_type = "sales"
         THEN (IF r.units = NoValue THEN NoValue ELSE Val(0 - r.units[1]))
         ELSE Val(0)

StockTerms(rows) == [i \in 1..Len(rows) |-> StockTerm(rows[i])]

get_stock_level(l, item_name, as_of_date) ==
    LET as_of == ToDateStr(as_of_date)
        rows == SelectSeq(UpTo(l, as_of), LAMBDA r : r.item_name = item_name)
    IN  [item_name |-> IF rows = <<>> THEN NULL ELSE item_name,
         current_stock |-> Coalesce0(SqlSum(StockTerms(rows)))]

\* the HAVING clause left out
get_all_inventory_unfiltered(l, as_of) ==
    LET rows == SelectSeq(UpTo(l, as_of), LAMBDA r : r.item_name # NULL)
        names == {rows[i].item_name : i \in 1..Len(rows)}
        stock(n) == SqlSum(StockTerms(SelectSeq(rows, LAMBDA r : r.item_name = n)))
    IN  [n \in names |-> Coalesce0(stock(n))]

\* GROUP BY item_name over WHERE item_name IS NOT NULL, HAVING stock > 0
get_all_inventory(l, as_of) ==
    LET rows == SelectSeq(UpTo(l, as_of), LAMBDA r : r.item_name # NULL)
        names == {rows[i].item_name : i \in 1..Len(rows)}
        stock(n) == SqlSum(StockTerms(SelectSeq(rows, LAMBDA r : r.item_name = n)))
        kept == {n \in names : stock(n) # NoValue /\ stock(n)[1] > 0}
    IN  [n \in kept |-> stock(n)[1]]

PriceOf(rows, ttype) ==
    LET sel == SelectSeq(rows, LAMBDA r : r.transaction_type = ttype)
    IN  SumValues([i \in 1..Len(sel) |-> Val(sel[i].price)])

\* the cash movements without an item left out
get_cash_balance_items_only(l, as_of_date) ==
    LET transactions == SelectSeq(UpTo(l, ToDateStr(as_of_date)),
                                  LAMBDA r : r.item_name # NULL)
    IN  PriceOf(transactions, "sales") - PriceOf(transactions, "stock_orders")

get_cash_balance(l, as_of_date) ==
    LET transactions == UpTo(l, ToDateStr(as_of_date))
    IN  IF transactions # <<>>
        THEN PriceOf(transactions, "sales") - PriceOf(transactions, "stock_orders")
        ELSE 0

GetStockLevel(item, d) ==
    /\ res' = [op |-> "get_stock_level", item |-> item, as_of |-> d,
               out |-> get_stock_level(ledger, item, d)]
    /\ PoolUse
    /\ UNCHANGED <<ledger, calls, wf, agent_usage_count, invoked, nruns, threads>>

GetAllInventory(d) ==
    /\ res' = [op |-> "get_all_inventory", as_of |-> d,
               out |-> get_all_inventory(ledger, ToDateStr(d))]
    /\ PoolUse
    /\ UNCHANGED <<ledger, calls, wf, agent_usage_count, invoked, nruns, threads>>

GetCashBalance(d) ==
    /\ res' = [op |-> "get_cash_balance", as_of |-> d,
               out |-> get_cash_balance(ledger, d)]
    /\ PoolUse
    /\ UNCHANGED <<ledger, calls, wf, agent_usage_count, invoked, nruns, threads>>

\* SELECT item_name, SUM(units), SUM(price) ... WHERE transaction_type = 'sales'
\* AND transaction_date <= :date GROUP BY item_name
SalesGroups(l, as_of) ==
    LET rows == SelectSeq(UpTo(l, as_of), LAMBDA r : r.transaction_type = "sales")
        of(n) == SelectSeq(rows, LAMBDA r : r.item_name = n)
    IN  {[item_name |-> n,
          total_units |-> SqlSum([i \in 1..Len(of(n)) |-> of(n)[i].units]),
          total_revenue |-> SumValues([i \in 1..Len(of(n)) |-> Val(of(n)[i].price)])]
         : n \in {rows[i].item_name : i \in 1..Len(rows)}}

TopLimit == 5

\* ORDER BY total_revenue DESC LIMIT 5: groups of equal revenue come in any order
TopSales(l, as_of) ==
    LET g == SalesGroups(l, as_of)
        n == Cardinality(g)
        orders == {s \in [1..n -> g] :
                     /\ \A i, j \in 1..n : i # j => s[i] # s[j]
                     /\ \A i, j \in 1..n : i < j => s[i].total_revenue >= s[j].total_revenue}
    IN  {SubSeq(s, 1, IF n < TopLimit THEN n ELSE TopLimit) : s \in orders}

\* the stock taken for the value, the unit price left out
InventorySummaryUnpriced(l, as_of_date) ==
    [i \in 1..Len(InventoryTable) |->
        LET item == InventoryTable[i]
            stock == get_stock_level(l, item.item_name, as_of_date).current_stock
        IN  [item_name |-> item.item_name, stock |-> stock,
             unit_price |-> item.unit_price, value |-> stock]]

\* for _, item in inventory_df.iterrows(): one entry per row of table inventory
InventorySummary(l, as_of_date) ==
    [i \in 1..Len(InventoryTable) |->
        LET item == InventoryTable[i]
            stock == get_stock_level(l, item.item_name, as_of_date).current_stock
        IN  [item_name |-> item.item_name, stock |-> stock,
             unit_price |-> item.unit_price, value |-> stock * item.unit_price]]

generate_financial_report(l, as_of_date, top) ==
    LET cash == get_cash_balance(l, as_of_date)
        summary == InventorySummary(l, as_of_date)
        inventory_value == SumValues([i \in 1..Len(summary) |-> Val(summary[i].value)])
    IN  [as_of_date |-> ToDateStr(as_of_date),
         cash_balance |-> cash,
         inventory_value |-> inventory_value,
         total_assets |-> cash + inventory_value,
         inventory_summary |-> summary,
         top_selling_products |-> top]

GenerateFinancialReport(d) ==
    /\ \E top \in TopSales(ledger, ToDateStr(d)) :
          res' = [op |-> "generate_financial_report", as_of |-> d,
                  out |-> generate_financial_report(ledger, d, top)]
    /\ PoolUseTimes(3 + Len(InventoryTable))
    /\ UNCHANGED <<ledger, calls, wf, agent_usage_count, invoked, nruns, threads>>

-----------------------------------------------------------------------------
(* get_supplier_delivery_date *)

\* the steps taken one unit early
LeadDaysStrict(quantity) ==
    IF quantity < 10 THEN 0
    ELSE IF quantity < 100 THEN 1
    ELSE IF quantity < 1000 THEN 4
    ELSE 7

LeadDays(quantity) ==
    IF quantity <= 10 THEN 0
    ELSE IF quantity <= 100 THEN 1
    ELSE IF quantity <= 1000 THEN 4
    ELSE 7

\* text that is no ISO date
BadText == [kind |-> "text"]

\* a value that is not text (None, a number, a datetime)
NotText == [kind |-> "object"]

\* today is datetime.now() of the process.  input_date_str.split("T")[0] is
\* the date part of the string; on a value without split the AttributeError is
\* not among the exceptions the function catches.
get_supplier_delivery_date(input_date_str, quantity, today) ==
    IF input_date_str = NotText THEN [raised |-> "AttributeError"]
    ELSE LET base == IF input_date_str = BadText THEN today ELSE input_date_str.day
         IN  [date |-> <<base + LeadDays(quantity), 0>>]

GetSupplierDeliveryDate(d, quantity, today) ==
    /\ res' = [op |-> "get_supplier_delivery_date", base |-> d, quantity |-> quantity,
               today |-> today, out |-> get_supplier_delivery_date(d, quantity, today)]
    /\ UNCHANGED <<ledger, idle, lastRowid, calls, wf, agent_usage_count, invoked, nruns, threads>>

-----------------------------------------------------------------------------
(* MultiAgentWorkflow *)

\* toolset_inventor_agent, toolset_quoting_agent, toolset_sales_finalization_agent;
\* the orchestration and invoice agents are built without tools
Toolset(agent) ==
    IF agent = "inventory"
    THEN {"get_all_inventory", "get_stock_level", "get_supplier_delivery_date",
          "create_transaction"}
    ELSE IF agent = "quoting" THEN {"search_quote_history", "generate_financial_report"}
    ELSE IF agent = "sales" THEN {"create_transaction", "get_supplier_delivery_date"}
    ELSE {}

\* run() is inside a run_sync: the agent named by wf.pc is at work, or, at
\* "blocked", the run_sync of the agent invoked last has not come back
Running == wf.pc \in {"orchestration", "inventory", "quoting", "sales", "invoice",
                      "blocked"}

\* a tool call of the agent that is running now
OwnCall(c) == calls[c].by = wf.pc /\ calls[c].req = nruns

ToolsDone == \A c \in CallIds : OwnCall(c) => ~InFlight(c)

\* an exception of a tool function ends the agent's run_sync with that exception
ToolRaised == \E c \in CallIds : OwnCall(c) /\ calls[c].pc = "raised"

Invoke(agent) == invoked' = Append(invoked, agent)

\* every stage counted under "invoice"
CountAsInvoice(agent) == agent_usage_count' = [agent_usage_count EXCEPT !["invoice"] = @ + 1]

\* a stage counted twice
CountTwice(agent) == agent_usage_count' = [agent_usage_count EXCEPT ![agent] = @ + 2]

\* self.agent_usage_count[agent] += 1
Count(agent) == agent_usage_count' = [agent_usage_count EXCEPT ![agent] = @ + 1]

TextResponse(t) == [kind |-> "text", text |-> t]

\* run() up to the run_sync of the orchestration agent
Run ==
    /\ ~Running
    /\ AllDone
    /\ nruns < MaxRuns
    /\ nruns' = nruns + 1
    /\ wf' = [WfIdle EXCEPT !.pc = "orchestration", !.usage0 = agent_usage_count]
    /\ invoked' = <<"orchestration">>
    /\ res' = NoRes
    /\ UNCHANGED <<ledger, idle, lastRowid, calls, agent_usage_count, threads>>

\* the answer of the inventory agent handed back by a request that failed
FailReturnsPartial ==
    /\ wf' = [wf EXCEPT !.pc = "failed", !.response = TextResponse(wf.answer)]
    /\ UNCHANGED <<invoked, agent_usage_count>>

\* the exception of a run_sync leaves handle_inquiry / handle_order and run()
Fail ==
    /\ wf' = [wf EXCEPT !.pc = "failed"]
    /\ UNCHANGED <<invoked, agent_usage_count>>

\* run_sync is called without a timeout: a model call that does not come back
\* keeps run() inside it
CapabilityBlocks ==
    /\ wf.pc \in {"orchestration", "inventory", "quoting", "sales", "invoice"}
    /\ ToolsDone
    /\ wf' = [wf EXCEPT !.pc = "blocked"]
    /\ res' = NoRes
    /\ UNCHANGED <<ledger, idle, lastRowid, calls, agent_usage_count, invoked, nruns, threads>>

\* an inquiry sent on to the quoting agent
AfterInventoryAlwaysQuote(classification, proceed) ==
    IF classification = "ORDER" /\ ~proceed THEN "done" ELSE "quoting"

\* proceed_with_order not looked at
AfterInventoryIgnoreProceed(classification, proceed) ==
    IF classification = "INQUIRY" THEN "done" ELSE "quoting"

\* the stage entered once the inventory agent has answered
AfterInventory(classification, proceed) ==
    IF classification = "INQUIRY" THEN "done"
    ELSE IF ~proceed THEN "done"
    ELSE "quoting"

\* the orchestration agent returns; run() routes on the classification and the
\* handler starts the inventory agent
OrchestrationReturns(classification, ok) ==
    /\ wf.pc = "orchestration"
    /\ IF ~ok THEN Fail
       ELSE IF classification \in {"INQUIRY", "ORDER"}
       THEN /\ wf' = [wf EXCEPT !.pc = "inventory", !.classification = classification]
            /\ Invoke("inventory")
            /\ UNCHANGED agent_usage_count
       ELSE /\ wf' = [wf EXCEPT !.pc = "done", !.classification = classification,
                         !.response = TextResponse("Invalid classification")]
            /\ UNCHANGED <<invoked, agent_usage_count>>
    /\ res' = NoRes
    /\ UNCHANGED <<ledger, idle, lastRowid, calls, nruns, threads>>

\* handle_inquiry / handle_order from the return of the inventory agent on
InventoryReturns(answer, proceed, ok) ==
    /\ wf.pc = "inventory"
    /\ ToolsDone
    /\ IF ~ok \/ ToolRaised THEN Fail
       ELSE LET next == AfterInventory(wf.classification, proceed)
            IN  /\ Count("inventory")
                /\ wf' = [wf EXCEPT !.pc = next, !.answer = answer, !.proceed = proceed,
                            !.response =
                                IF wf.classification = "INQUIRY"
                                THEN [kind |-> "InventoryResponse", answer |-> answer,
                                      proceed_with_order |-> proceed]
                                ELSE IF next = "done" THEN TextResponse(answer)
                                ELSE @]
                /\ IF next = "done" THEN UNCHANGED invoked ELSE Invoke(next)
    /\ res' = NoRes
    /\ UNCHANGED <<ledger, idle, lastRowid, calls, nruns, threads>>

QuotingReturns(ok) ==
    /\ wf.pc = "quoting"
    /\ IF ~ok THEN Fail
       ELSE /\ Count("quoting")
            /\ wf' = [wf EXCEPT !.pc = "sales"]
            /\ Invoke("sales")
    /\ res' = NoRes
    /\ UNCHANGED <<ledger, idle, lastRowid, calls, nruns, threads>>

SalesReturns(ok) ==
    /\ wf.pc = "sales"
    /\ ToolsDone
    /\ IF ~ok \/ ToolRaised THEN Fail
       ELSE /\ Count("sales")
            /\ wf' = [wf EXCEPT !.pc = "invoice"]
            /\ Invoke("invoice")
    /\ res' = NoRes
    /\ UNCHANGED <<ledger, idle, lastRowid, calls, nruns, threads>>

InvoiceReturns(ok) ==
    /\ wf.pc = "invoice"
    /\ IF ~ok THEN Fail
       ELSE /\ Count("invoice")
            /\ wf' = [wf EXCEPT !.pc = "done", !.response = TextResponse("invoice")]
            /\ UNCHANGED invoked
    /\ res' = NoRes
    /\ UNCHANGED <<ledger, idle, lastRowid, calls, nruns, threads>>

-----------------------------------------------------------------------------
(* Inputs *)

\* dates written to the ledger: a plain date string and a datetime of day 2
AppendDates == {StrArg(2), DtArg(2, 0)}

\* cutoffs asked for: the seeding day, day 2, and a datetime of day 2
AsOfDates == {StrArg(1), StrArg(2), DtArg(2, 0)}

\* units and total price of an order
Amounts == {<<1000, 5000>>, <<200, 4000>>}

\* the ledger and its queries, called one after the other
DirectAppend ==
    \E c \in CallIds, item \in Items, ttype \in {"stock_orders", "sales", "refund"},
       a \in Amounts, d \in AppendDates :
        /\ AllDone
        /\ CreateTransaction(c, "direct", item, ttype, a[1], a[2], d, TRUE)
        /\ UNCHANGED wf

AppendSteps ==
    \E c \in CallIds : ToSqlReturn(c) \/ FetchId(c, TRUE)

Queries ==
    /\ AllDone
    /\ \/ \E item \in Items, d \in AsOfDates : GetStockLevel(item, d)
       \/ \E d \in AsOfDates : d.kind = "str" /\ GetAllInventory(d)
       \/ \E d \in AsOfDates : GetCashBalance(d)
       \/ \E d \in AsOfDates : GenerateFinancialReport(d)

NextLedger == DirectAppend \/ AppendSteps \/ Queries

SpecLedger == Init /\ [][NextLedger]_vars

-----------------------------------------------------------------------------
(* create_transaction called from several threads at once *)

ThreadAppend ==
    \E c \in CallIds, ttype \in {"stock_orders", "sales", "refund"}, ok \in BOOLEAN :
        /\ CreateTransaction(c, "direct", "A4 paper", ttype, 200, 4000, StrArg(2), ok)
        /\ UNCHANGED wf

ThreadSteps ==
    \E c \in CallIds : ToSqlReturn(c) \/ (\E ok \in BOOLEAN : FetchId(c, ok))

\* a query of another thread in between
ThreadRead == GetCashBalance(StrArg(2))

NextThreads == ThreadAppend \/ ThreadSteps \/ ThreadRead

SpecThreads == Init /\ [][NextThreads]_vars

-----------------------------------------------------------------------------
(* The program as run_test_scenarios drives it: one thread that reads the
   ledger and hands requests to the coordinator, whose agents call their
   tools, create_transaction among them, while they run *)

\* create_transaction called by the agent that is running, if it has the tool
ToolAppend ==
    \E c \in CallIds, ttype \in {"stock_orders", "sales"} :
        /\ Running
        /\ "create_transaction" \in Toolset(wf.pc)
        /\ AllDone
        /\ CreateTransaction(c, wf.pc, "A4 paper", ttype, 200, 4000, StrArg(2), TRUE)
        /\ UNCHANGED wf

Reads ==
    /\ AllDone
    /\ \/ GetStockLevel("A4 paper", StrArg(2))
       \/ GetAllInventory(StrArg(2))
       \/ GetCashBalance(StrArg(2))
       \/ GenerateFinancialReport(StrArg(2))
       \/ GetSupplierDeliveryDate(StrArg(2), 200, 2)

Workflow ==
    \/ Run
    \/ \E cl \in {"INQUIRY", "ORDER", "OTHER"}, ok \in BOOLEAN : OrchestrationReturns(cl, ok)
    \/ \E p \in BOOLEAN, ok \in BOOLEAN : InventoryReturns("answer", p, ok)
    \/ \E ok \in BOOLEAN : QuotingReturns(ok)
    \/ \E ok \in BOOLEAN : SalesReturns(ok)
    \/ \E ok \in BOOLEAN : InvoiceReturns(ok)

Next == ToolAppend \/ AppendSteps \/ Reads \/ Workflow

Spec == Init /\ [][Next]_vars

-----------------------------------------------------------------------------
(* The coordinator alone, with agents that may not come back.  run() is
   straight-line code on one thread: whenever the run_sync it waits for comes
   back it goes on, and the caller's loop then starts the next run. *)

NextLive == Workflow \/ CapabilityBlocks

SpecLive == Init /\ [][NextLive]_vars /\ WF_vars(Workflow)

-----------------------------------------------------------------------------
(* Properties of the ledger and its queries *)

Matching(l, ttype, d) ==
    {i \in 1..Len(l) : l[i].transaction_type = ttype /\ StrLeq(l[i].transaction_date, d)}

RECURSIVE UnitsOver(_, _)
UnitsOver(l, S) ==
    IF S = {} THEN 0
    ELSE LET i == CHOOSE x \in S : TRUE
         IN  (IF l[i].units = NoValue THEN 0 ELSE l[i].units[1]) + UnitsOver(l, S \ {i})

RECURSIVE PriceOver(_, _)
PriceOver(l, S) ==
    IF S = {} THEN 0
    ELSE LET i == CHOOSE x \in S : TRUE IN l[i].price + PriceOver(l, S \ {i})

OfItem(l, S, item) == {i \in S : l[i].item_name = item}

NetUnits(l, item, d) ==
    UnitsOver(l, OfItem(l, Matching(l, "stock_orders", d), item))
      - UnitsOver(l, OfItem(l, Matching(l, "sales", d), item))

\* C1: get_stock_level returns, for the item and the cutoff it was asked for,
\* the units of the item's stock_orders records up to the cutoff minus the
\* units of its sales records up to the cutoff, and 0 when no record matches.
C1_NetStock ==
    res.op = "get_stock_level" =>
        res.out.current_stock = NetUnits(ledger, res.item, ToDateStr(res.as_of))

\* stock orders and sales of the item are counted, a later record of it is not
C1_Witness ==
    /\ res.op = "get_stock_level"
    /\ LET d == ToDateStr(res.as_of)
       IN  /\ OfItem(ledger, Matching(ledger, "stock_orders", d), res.item) # {}
           /\ OfItem(ledger, Matching(ledger, "sales", d), res.item) # {}
           /\ \E i \in 1..Len(ledger) : /\ ledger[i].item_name = res.item
                                       /\ ~StrLeq(ledger[i].transaction_date, d)

\* C2: get_cash_balance returns the prices of the sales records up to the
\* cutoff minus the prices of the stock_orders records up to the cutoff, the
\* records without an item included, and 0 when no record is up to the cutoff.
C2_CashBalance ==
    res.op = "get_cash_balance" =>
        LET d == ToDateStr(res.as_of)
        IN  res.out = PriceOver(ledger, Matching(ledger, "sales", d))
                        - PriceOver(ledger, Matching(ledger, "stock_orders", d))

\* a sale without an item, a sale of an item and a stock order are all counted
C2_Witness ==
    /\ res.op = "get_cash_balance"
    /\ LET d == ToDateStr(res.as_of)
       IN  /\ OfItem(ledger, Matching(ledger, "sales", d), NULL) # {}
           /\ \E i \in Matching(ledger, "sales", d) : ledger[i].item_name # NULL
           /\ Matching(ledger, "stock_orders", d) # {}

\* C3: the keys of what get_all_inventory returns are the items whose net
\* stock at the cutoff is positive, each mapped to that net stock.
C3_AllPositiveStock ==
    res.op = "get_all_inventory" =>
        LET net(n) == get_stock_level(ledger, n, res.as_of).current_stock
        IN  /\ DOMAIN res.out = {n \in Items : net(n) > 0}
            /\ \A n \in DOMAIN res.out : res.out[n] = net(n)

\* one item is in stock and another, with records up to the cutoff, is not
C3_Witness ==
    /\ res.op = "get_all_inventory"
    /\ DOMAIN res.out # {}
    /\ \E i \in 1..Len(ledger) :
          /\ ledger[i].item_name \in Items \ DOMAIN res.out
          /\ StrLeq(ledger[i].transaction_date, ToDateStr(res.as_of))

\* the calendar day of a stored date string and of a cutoff
DayOf(dateStr) == dateStr[1]

OnOrBefore(l, ttype, day) ==
    {i \in 1..Len(l) : l[i].transaction_type = ttype /\ DayOf(l[i].transaction_date) <= day}

\* C4: a record dated on calendar day c, written from a date string or from
\* a datetime, is counted by get_stock_level, get_all_inventory and
\* get_cash_balance for every cutoff on or after day c, the plain date of day c
\* included.
C4_CalendarDayCutoff ==
    LET day == res.as_of.day
        net(n) == UnitsOver(ledger, OfItem(ledger, OnOrBefore(ledger, "stock_orders", day), n))
                    - UnitsOver(ledger, OfItem(ledger, OnOrBefore(ledger, "sales", day), n))
    IN  /\ res.op = "get_stock_level" => res.out.current_stock = net(res.item)
        /\ res.op = "get_cash_balance" =>
              res.out = PriceOver(ledger, OnOrBefore(ledger, "sales", day))
                          - PriceOver(ledger, OnOrBefore(ledger, "stock_orders", day))
        /\ res.op = "get_all_inventory" =>
              /\ DOMAIN res.out = {n \in Items : net(n) > 0}
              /\ \A n \in DOMAIN res.out : res.out[n] = net(n)

\* C5: a create_transaction call whose transaction_type is neither
\* 'stock_orders' nor 'sales' ends in the ValueError, and the step that ends it
\* leaves the ledger as it was.
C5_InvalidTypeRejected ==
    [][\A c \in CallIds :
          (calls[c].pc = "new" /\ calls'[c].pc # "new"
             /\ calls'[c].ttype \notin {"stock_orders", "sales"})
          => (calls'[c].pc = "raised" /\ calls'[c].err = "ValueError"
                /\ calls'[c].own = 0 /\ ledger' = ledger)]_vars

\* a call with another type has been made, after one that was stored
C5_Witness ==
    \E c \in CallIds : /\ calls[c].pc = "raised"
                       /\ calls[c].ttype = "refund"
                       /\ Len(ledger) > Len(SeedRows(500))

\* C6: the record of every call that returned is stored with the integer id
\* the call returned, and of two calls the one that inserted later returned
\* the greater id.
C6_IdStoredAndIncreasing ==
    \A c \in CallIds :
        calls[c].pc = "returned" =>
            /\ ledger[calls[c].own].id = Val(calls[c].ret)
            /\ \A b \in CallIds :
                  (calls[b].pc = "returned" /\ calls[b].own < calls[c].own)
                    => calls[b].ret < calls[c].ret

\* C7: of the calls that returned, each returned the rowid of the row it
\* inserted itself, so that no two returned the same id and none was skipped.
C7_IdFetchAtomic ==
    \A c \in CallIds :
        calls[c].pc = "returned" =>
            /\ calls[c].ret = calls[c].own
            /\ \A b \in CallIds \ {c} :
                  calls[b].pc = "returned" => calls[b].ret # calls[c].ret

\* C8: a call that ended in an error left no row in the ledger, and a call
\* that returned an id left its row there.
C8_AppendAtomic ==
    \A c \in CallIds :
        /\ calls[c].pc = "raised" => calls[c].own = 0
        /\ calls[c].pc = "returned" => calls[c].own \in 1..Len(ledger)

-----------------------------------------------------------------------------
(* Properties of the coordinator *)

Uses(agent) == Cardinality({i \in 1..Len(invoked) : invoked[i] = agent})

C12_AbortedOrder ==
    (wf.classification = "ORDER" /\ wf.pc = "done" /\ ~wf.proceed) =>
        /\ wf.response = TextResponse(wf.answer)
        /\ invoked = <<"orchestration", "inventory">>
        /\ agent_usage_count["inventory"] = wf.usage0["inventory"] + 1
        /\ \A a \in {"quoting", "sales", "invoice"} :
              agent_usage_count[a] = wf.usage0[a]

\* an order turned down by a coordinator that has quoted an earlier order
C12_Witness ==
    /\ wf.classification = "ORDER"
    /\ wf.pc = "done"
    /\ ~wf.proceed
    /\ wf.usage0["quoting"] > 0

\* the stages of handle_order in the order of its code
Stages == <<"inventory", "quoting", "sales", "invoice">>

\* how many stages have returned when run() is at pc
StagesReturned(pc) ==
    IF pc = "quoting" THEN 1 ELSE IF pc = "sales" THEN 2
    ELSE IF pc = "invoice" THEN 3 ELSE 4

RunStart(usage) == [WfIdle EXCEPT !.pc = "orchestration", !.usage0 = usage]

\* C15: a request in which the run_sync of an agent, or a tool the agent
\* called, raised has ended as a whole: nothing is handed back as its response,
\* every agent it invoked was invoked once, the last of them being the one that
\* failed, no agent is invoked and no counter changes until the next run, and
\* the next run starts in the state in which a run starts on a coordinator
\* that has seen no failure, the counters apart.
C15_FailureEndsRequestOnly ==
    /\ [](wf.pc = "failed" =>
            /\ wf.response = NoResponse
            /\ \A a \in Agents \cup {"orchestration"} : Uses(a) <= 1)
    /\ [][/\ wf'.pc = "failed" =>
               /\ invoked' = invoked
               /\ agent_usage_count' = agent_usage_count
               /\ wf.pc # "failed" => wf.pc = invoked[Len(invoked)]
          /\ (wf.pc = "failed" /\ wf'.pc # "failed") =>
               (wf' = RunStart(agent_usage_count) /\ invoked' = <<"orchestration">>)
          /\ (wf.pc \in {"idle", "done"} /\ wf'.pc = "orchestration") =>
               (wf' = RunStart(agent_usage_count) /\ invoked' = <<"orchestration">>)]_vars

\* an order carried through on a coordinator whose request before it failed
\* in the sales agent, after the inventory and quoting agents had returned
C15_Witness ==
    /\ wf.pc = "done"
    /\ wf.classification = "ORDER"
    /\ wf.proceed
    /\ wf.usage0["quoting"] = 1
    /\ wf.usage0["sales"] = 0
    /\ agent_usage_count["sales"] = 1

\* C16: every run that has been called returns or raises: a run that is inside
\* the run_sync of an agent is, some time later, outside of it, also when the
\* agent does not come back.
C16_RunTerminates == Running ~> ~Running

\* the agents run() and its handlers call
Capabilities == {"orchestration"} \cup Agents

\* the step in which the run_sync of agent a returns its output
Completes(a) == wf.pc = a /\ wf'.pc \notin {a, "failed", "blocked"}

\* C17: agent_usage_count holds a counter under the name of each of the five
\* agents; the step in which an agent's run_sync returns adds one to the
\* counter of that agent, and no other step changes a counter, so that each
\* counter is the number of completed invocations and never falls.
C17_CountersCountCompleted ==
    [][\A a \in Capabilities :
          /\ Completes(a) =>
                /\ a \in DOMAIN agent_usage_count'
                /\ a \in DOMAIN agent_usage_count
                /\ agent_usage_count'[a] = agent_usage_count[a] + 1
          /\ (~Completes(a) /\ a \in DOMAIN agent_usage_count) =>
                /\ a \in DOMAIN agent_usage_count'
                /\ agent_usage_count'[a] = agent_usage_count[a]]_vars

\* C18: what run returns is, for a request classified INQUIRY and for an order
\* whose inventory output had proceed_with_order = False, the answer text of
\* the inventory output, and for an order carried through the output of the
\* invoice agent.
C18_ReturnValue ==
    (wf.pc = "done" /\ wf.classification \in {"INQUIRY", "ORDER"}) =>
        wf.response =
            IF wf.classification = "ORDER" /\ wf.proceed
            THEN TextResponse("invoice")
            ELSE TextResponse(wf.answer)

\* C19: every record an agent appended was appended by the inventory agent or
\* the sales agent while it was running; those of the inventory agent have
\* transaction_type 'stock_orders' and those of the sales agent 'sales'.
C19_WhoAppendsWhat ==
    \A c \in CallIds :
        calls[c].own # 0 =>
            \/ calls[c].by = "inventory" /\ calls[c].ttype = "stock_orders"
            \/ calls[c].by = "sales" /\ calls[c].ttype = "sales"

-----------------------------------------------------------------------------
(* Properties of the report *)

RECURSIVE SumOfValues(_)
SumOfValues(summary) ==
    IF summary = <<>> THEN 0 ELSE Head(summary).value + SumOfValues(Tail(summary))

\* C20: the report generate_financial_report returns for a cutoff has
\* cash_balance equal to the sales prices minus the stock_orders prices up to
\* the cutoff, an inventory_summary with one entry for each row of table
\* inventory, in its order, whose stock is the net stock of the item at the
\* cutoff and whose value is stock * unit_price, inventory_value equal to the
\* sum of these values, and total_assets = cash_balance + inventory_value.
C20_Report ==
    res.op = "generate_financial_report" =>
        LET d == ToDateStr(res.as_of)
            r == res.out
        IN  /\ r.cash_balance = PriceOver(ledger, Matching(ledger, "sales", d))
                                  - PriceOver(ledger, Matching(ledger, "stock_orders", d))
            /\ Len(r.inventory_summary) = Len(InventoryTable)
            /\ \A i \in 1..Len(InventoryTable) :
                  LET e == r.inventory_summary[i]
                  IN  /\ e.item_name = InventoryTable[i].item_name
                      /\ e.unit_price = InventoryTable[i].unit_price
                      /\ e.stock = NetUnits(ledger, e.item_name, d)
                      /\ e.value = e.stock * e.unit_price
            /\ r.inventory_value = SumOfValues(r.inventory_summary)
            /\ r.total_assets = r.cash_balance + r.inventory_value

\* a report over a ledger in which the item of table inventory has been sold,
\* an item that is not in table inventory has been ordered, both up to the
\* cutoff, and the stock on hand is worth something
C20_Witness ==
    /\ res.op = "generate_financial_report"
    /\ LET d == ToDateStr(res.as_of)
       IN  /\ OfItem(ledger, Matching(ledger, "sales", d), "A4 paper") # {}
           /\ OfItem(ledger, Matching(ledger, "stock_orders", d), "Cardstock") # {}
           /\ res.out.inventory_value > 0
           /\ res.out.inventory_value # res.out.inventory_summary[1].stock

\* item names in ascending order of SQLite's comparison: NULL before any text
NameRank(n) == IF n = NULL THEN 0 ELSE IF n = "A4 paper" THEN 1 ELSE 2

\* total_revenue descending, ties by item_name ascending
Before(a, b) ==
    \/ a.total_revenue > b.total_revenue
    \/ a.total_revenue = b.total_revenue /\ NameRank(a.item_name) < NameRank(b.item_name)

\* C21: top_selling_products of a report holds, for the sales records up to
\* the cutoff grouped by item, one entry per item with total_units and
\* total_revenue (the sum of price), the entries ordered by total_revenue
\* descending and, at equal revenue, by item_name ascending, and cut to the
\* first 5.
C21_TopSellingProducts ==
    res.op = "generate_financial_report" =>
        LET top == res.out.top_selling_products
            g == SalesGroups(ledger, ToDateStr(res.as_of))
            n == Cardinality(g)
        IN  /\ Len(top) = IF n < 5 THEN n ELSE 5
            /\ \A i \in 1..Len(top) : top[i] \in g
            /\ \A i, j \in 1..Len(top) : i < j => Before(top[i], top[j])
            /\ \A e \in g : (\E i \in 1..Len(top) : top[i] = e)
                              \/ \A i \in 1..Len(top) : Before(top[i], e)

-----------------------------------------------------------------------------
(* get_supplier_delivery_date called on its own *)

\* base dates handed in: ISO date strings of three days, text that is no
\* date, and a value that is not text
BaseDates == {StrArg(1), StrArg(2), StrArg(3), BadText, NotText}

\* order quantities around the steps of the lead time
Quantities == {0, 10, 11, 100, 101, 1000, 1001, 5000}

\* the day datetime.now() falls on
Todays == {5, 6, 7}

EstimatorCall ==
    \E d \in BaseDates, q \in Quantities, today \in Todays :
        GetSupplierDeliveryDate(d, q, today)

SpecEstimator == Init /\ [][EstimatorCall]_vars

\* the days the estimate lies after its base date
DaysAdded == res.out.date[1] - res.base.day

\* C22: for a base date that parses and a quantity q, the estimate is the
\* base date itself for q <= 10, one day later for 11 <= q <= 100, four days
\* later for 101 <= q <= 1000 and seven days later for q > 1000.
C22_LeadTimeSteps ==
    (res.op = "get_supplier_delivery_date" /\ res.base \notin {BadText, NotText}) =>
        LET q == res.quantity
        IN  /\ res.out.date[2] = 0
            /\ q <= 10 => DaysAdded = 0
            /\ (11 <= q /\ q <= 100) => DaysAdded = 1
            /\ (101 <= q /\ q <= 1000) => DaysAdded = 4
            /\ q > 1000 => DaysAdded = 7

\* an estimate for 1001 units from a date string
C22_Witness ==
    /\ res.op = "get_supplier_delivery_date"
    /\ res.base = StrArg(2)
    /\ res.quantity = 1001
    /\ res.out.date = <<9, 0>>

\* C23: for a base date that does not parse (text that is no date, or a value
\* that is not text) the estimate does not raise: it is the current date plus
\* the lead time of the quantity.
C23_EstimateNeverRaises ==
    (res.op = "get_supplier_delivery_date" /\ res.base \in {BadText, NotText}) =>
        /\ "raised" \notin DOMAIN res.out
        /\ res.out.date[2] = 0
        /\ res.out.date[1] - res.today \in {0, 1, 4, 7}
        /\ res.quantity <= 10 <=> res.out.date[1] = res.today

-----------------------------------------------------------------------------
(* The queries when a read of the database fails: pd.read_sql raises *)

\* what a query whose read failed gave back: raised tells whether the
\* exception left the function, out is what it returned otherwise
Faulted(op, d, fault, raised, out) ==
    [op |-> op, as_of |-> d, fault |-> fault, raised |-> raised, out |-> out]

\* get_stock_level has no try: the exception of read_sql leaves it
GetStockLevelReadFails(item, d) ==
    /\ res' = Faulted("get_stock_level", d, "stock", TRUE, NULL)
    /\ PoolUse
    /\ UNCHANGED <<ledger, calls, wf, agent_usage_count, invoked, nruns, threads>>

\* get_all_inventory has no try either
GetAllInventoryReadFails(d) ==
    /\ res' = Faulted("get_all_inventory", d, "inventory", TRUE, NULL)
    /\ PoolUse
    /\ UNCHANGED <<ledger, calls, wf, agent_usage_count, invoked, nruns, threads>>

\* except Exception as e: print(...); return 0.0
GetCashBalanceReadFails(d) ==
    /\ res' = Faulted("get_cash_balance", d, "cash", FALSE, 0)
    /\ PoolUse
    /\ UNCHANGED <<ledger, calls, wf, agent_usage_count, invoked, nruns, threads>>

\* the reads of generate_financial_report in the order of its code
ReportReads == <<"cash", "inventory", "stock", "top">>

\* generate_financial_report with its k-th read failing: the failure inside
\* get_cash_balance is swallowed there and the report goes on with cash 0.0;
\* the read of table inventory, get_stock_level and the top sellers query
\* are not inside a try
GenerateFinancialReportReadFails(d, k) ==
    /\ IF ReportReads[k] = "cash"
       THEN \E top \in TopSales(ledger, ToDateStr(d)) :
               LET r == generate_financial_report(ledger, d, top)
               IN  res' = Faulted("generate_financial_report", d, "cash", FALSE,
                                  [r EXCEPT !.cash_balance = 0,
                                            !.total_assets = 0 + r.inventory_value])
       ELSE res' = Faulted("generate_financial_report", d, ReportReads[k], TRUE, NULL)
    /\ PoolUseTimes(IF ReportReads[k] \in {"cash", "top"}
                    THEN 3 + Len(InventoryTable) ELSE k)
    /\ UNCHANGED <<ledger, calls, wf, agent_usage_count, invoked, nruns, threads>>

FailingReads ==
    /\ AllDone
    /\ \/ \E item \in Items, d \in AsOfDates : GetStockLevelReadFails(item, d)
       \/ \E d \in AsOfDates : d.kind = "str" /\ GetAllInventoryReadFails(d)
       \/ \E d \in AsOfDates : GetCashBalanceReadFails(d)
       \/ \E d \in AsOfDates, k \in 1..Len(ReportReads) :
             GenerateFinancialReportReadFails(d, k)

NextFaults == DirectAppend \/ AppendSteps \/ FailingReads

SpecFaults == Init /\ [][NextFaults]_vars

\* C24: a query or report whose read of the ledger failed does not raise; it
\* returns its neutral value: stock 0 from get_stock_level, no item from
\* get_all_inventory, 0.0 from get_cash_balance, and a report with cash 0.0
\* from generate_financial_report.
C24_ReadsFailSoft ==
    "fault" \in DOMAIN res =>
        /\ ~res.raised
        /\ res.op = "get_stock_level" => res.out.current_stock = 0
        /\ res.op = "get_all_inventory" => DOMAIN res.out = {}
        /\ res.op = "get_cash_balance" => res.out = 0
        /\ res.op = "generate_financial_report" => res.out.cash_balance = 0

-----------------------------------------------------------------------------
(* What the coordinator hands to the agents *)

\* class WorkflowContext(BaseModel): request_id, original_request
WorkflowContext(request_id, original_request) ==
    [request_id |-> request_id, original_request |-> original_request]

\* the parts of the prompt run_sync is called with, each named by where it
\* comes from: "request" is context.original_request (customer_request for
\* the orchestration agent), "orchestration" the classification, "inventory"
\* inventory_response.output.answer, "quoting" quoting_response.output and
\* "sales" sales_response.output
StageInput(agent) ==
    IF agent = "orchestration" THEN {"request"}
    ELSE IF agent = "inventory" THEN {"orchestration", "request"}
    ELSE IF agent = "quoting" THEN {"request", "inventory"}
    ELSE IF agent = "sales" THEN {"request", "inventory", "quoting"}
    ELSE {"request", "inventory", "quoting", "sales"}

\* the agents that have returned before the agent at place k of invoked
ReturnedBefore(k) == {invoked[i] : i \in 1..(k - 1)}

\* C25: in a request classified ORDER the prompt of the quoting, sales and
\* invoice agents holds the request text and the output of every agent that
\* returned before it, the classification included, and the WorkflowContext
\* has a place where the output of each of those agents is recorded.
C25_ContextAccumulates ==
    (wf.classification = "ORDER" /\ wf.pc \in {"quoting", "sales", "invoice"}) =>
        LET k == Len(invoked)
        IN  /\ invoked[k] = wf.pc
            /\ "request" \in StageInput(wf.pc)
            /\ ReturnedBefore(k) \subseteq StageInput(wf.pc)
            /\ "outputs" \in DOMAIN WorkflowContext(nruns, "request")

-----------------------------------------------------------------------------
(* run() called on one coordinator from several threads, with agents that
   answer.  The clock is read in ticks, several to the second. *)

TicksPerSecond == 2

Ticks == 1..(TicksPerSecond * MaxRuns)

\* f"REQ_{datetime.now().strftime('%Y%m%d%H%M%S')}": the clock cut to seconds
RequestId(now) == now \div TicksPerSecond

\* the thread has called run()
Started(t) == threads[t].pc # "new"

\* run() up to the run_sync of the orchestration agent; no two calls read the
\* same tick, and threads are numbered in the order of their calls
ThreadRun(t, now) ==
    /\ ~Started(t)
    /\ \A u \in ThreadIds : u < t => Started(u)
    /\ \A u \in ThreadIds : Started(u) => threads[u].started < now
    /\ threads' = [threads EXCEPT ![t] =
                     [@ EXCEPT !.pc = "orchestration", !.started = now,
                               !.request_id = WorkflowContext(RequestId(now), "request").request_id,
                               !.original_request = "request"]]
    /\ UNCHANGED <<ledger, idle, lastRowid, calls, res, wf, agent_usage_count, invoked, nruns>>

ThreadClassified(t, classification) ==
    /\ threads[t].pc = "orchestration"
    /\ threads' = [threads EXCEPT ![t] =
                     [@ EXCEPT !.pc = "inventory", !.classification = classification]]
    /\ UNCHANGED <<ledger, idle, lastRowid, calls, res, wf, agent_usage_count, invoked, nruns>>

\* the run_sync of an agent returns and self.agent_usage_count[agent] += 1
\* begins: it reads the counter
ThreadAgentReturns(t, proceed) ==
    /\ threads[t].pc \in Agents
    /\ threads' = [threads EXCEPT ![t] =
                     [@ EXCEPT !.pc = "counting", !.at = threads[t].pc,
                               !.loaded = agent_usage_count[threads[t].pc],
                               !.proceed = IF threads[t].pc = "inventory" THEN proceed ELSE @]]
    /\ UNCHANGED <<ledger, idle, lastRowid, calls, res, wf, agent_usage_count, invoked, nruns>>

\* the stage handle_inquiry / handle_order goes to after the agent at
NextStage(at, classification, proceed) ==
    IF at = "inventory" THEN AfterInventory(classification, proceed)
    ELSE IF at = "quoting" THEN "sales"
    ELSE IF at = "sales" THEN "invoice"
    ELSE "done"

\* the += 1 writes the value it read, plus one, and the handler goes on
ThreadCounts(t) ==
    /\ threads[t].pc = "counting"
    /\ agent_usage_count' = [agent_usage_count EXCEPT ![threads[t].at] = threads[t].loaded + 1]
    /\ threads' = [threads EXCEPT ![t] =
                     [@ EXCEPT !.pc = NextStage(threads[t].at, threads[t].classification,
                                                threads[t].proceed)]]
    /\ UNCHANGED <<ledger, idle, lastRowid, calls, res, wf, invoked, nruns>>

NextConcurrent ==
    \E t \in ThreadIds :
        \/ \E now \in Ticks : ThreadRun(t, now)
        \/ \E cl \in {"INQUIRY", "ORDER"} : ThreadClassified(t, cl)
        \/ \E p \in BOOLEAN : ThreadAgentReturns(t, p)
        \/ ThreadCounts(t)

SpecConcurrent == Init /\ [][NextConcurrent]_vars

\* C26: no two run calls of the process have the same request_id.
C26_RequestIdUnique ==
    \A t, u \in ThreadIds :
        (Started(t) /\ Started(u) /\ t # u) => threads[t].request_id # threads[u].request_id

\* the agent has returned in the run of thread t
CompletedIn(t, agent) ==
    /\ Started(t)
    /\ \/ threads[t].pc = "counting" /\ threads[t].at = agent
       \/ \E i, j \in 1..Len(Stages) :
             /\ Stages[i] = agent
             /\ i < j
             /\ Stages[j] = (IF threads[t].pc = "counting" THEN threads[t].at ELSE threads[t].pc)
       \/ /\ threads[t].pc = "done"
          /\ agent = "inventory" \/ (threads[t].classification = "ORDER" /\ threads[t].proceed)

\* C27: when every run call has returned, the counter of each agent is the
\* number of times the agent returned over all the calls.
C27_ConcurrentCounts ==
    (\A t \in ThreadIds : threads[t].pc \in {"new", "done"}) =>
        \A a \in Agents :
            agent_usage_count[a] = Cardinality({t \in ThreadIds : CompletedIn(t, a)})

-----------------------------------------------------------------------------
(* The usage counters over run calls made one after the other *)

\* what the request at hand has added to the counter of the agent so far
Added(agent) == agent_usage_count[agent] - wf.usage0[agent]

====
